---- MODULE Spec2Model ----
(***************************************************************************)
(* Apple ][ DOS 3.3 disk image reader (a2disk.py) and Applesoft BASIC      *)
(* de-tokenizer (applesoft.py).                                            *)
(*                                                                         *)
(* A disk image is an immutable input.  It is described by a small record  *)
(* (img) from which the 256 bytes of every sector are computed, so that    *)
(* the readers below do the same offset arithmetic as the code.  The       *)
(* image is taken to be a full 35 x 16 x 256 byte file.                    *)
(***************************************************************************)
EXTENDS Integers, Sequences, FiniteSets, TLC

VARIABLES
  pc,          \* position of the running command / API client
  img,         \* the disk image (input)
  err,         \* the exception that ended the operation, or "none"
  disk_open,   \* Disk.disk_image is open
  pos,         \* file position of Disk.disk_image
  nseek,       \* number of seek() calls made on the image
  nread,       \* number of read() calls made on the image
  ret,         \* value returned by the last API call
  vtoc_buffer, \* VTOC.vtoc_buffer
  cmd,         \* "catalog" or "dump" (sys.argv)
  file_name,   \* the file name argument of dump
  hop,         \* local of the running walker
  track,       \* local of the running walker
  sector,      \* local of the running walker
  yielded,     \* arguments of the callback calls made by walk_entries
  result,      \* value returned by walk_entries
  handler,     \* the output handler class chosen by dump
  entered,     \* number of handler.__enter__ calls
  exited,      \* number of handler.__exit__ calls
  delivered,   \* addresses of the sectors passed to the walk_sectors callback
  output,      \* what was written to stdout, as a sequence of events
  detok_runs,  \* number of Detokenize(...).detokenize() runs
  track_sector_list_sector, \* local of walk_sectors: the index sector read
  slot_offset, \* i of the for loop of walk_sectors
  dt_prog,     \* the program dt_data encodes (input description)
  dt_data,     \* Detokenize.data
  listing      \* outcome of detokenize(): text written, final index, exception

vars == <<pc, img, err, disk_open, pos, nseek, nread, ret, vtoc_buffer, cmd, file_name,
          hop, track, sector, yielded, result, handler, entered, exited,
          delivered, output, detok_runs, track_sector_list_sector, slot_offset,
          dt_prog, dt_data, listing>>

diskVars  == <<disk_open, pos, nseek, nread>>
runVars   == <<cmd, file_name, hop, track, sector, yielded, result, handler,
               entered, exited, delivered, output, detok_runs,
               track_sector_list_sector, slot_offset>>
detokVars == <<dt_prog, dt_data, listing>>
slotVars  == <<track_sector_list_sector, slot_offset>>

NoListing == [out |-> <<>>, index |-> 0, err |-> "none"]

(***************************************************************************)
(* applesoft.py                                                            *)
(***************************************************************************)

\* the keys of the dictionary in token()
TOKENS ==
  {128, 129, 130, 131, 132, 134, 135, 137, 138, 139, 140, 145, 146, 147,
   150, 151, 157, 158, 162, 163, 165, 171, 173, 176, 177, 178, 180, 185,
   186, 189, 190, 192, 193, 195, 196, 199, 200, 201, 202, 203, 204, 205,
   206, 207, 208, 209, 210, 211, 212, 214, 218, 219, 225, 226, 227, 228,
   229, 231}

\* token(d): the keyword of a token byte, as its character codes
token(d) ==
  CASE d = 128 -> <<69, 78, 68>>   \* 0x80: "END"
       [] d = 129 -> <<70, 79, 82>>   \* 0x81: "FOR"
       [] d = 130 -> <<78, 69, 88, 84>>   \* 0x82: "NEXT"
       [] d = 131 -> <<68, 65, 84, 65>>   \* 0x83: "DATA"
       [] d = 132 -> <<73, 78, 80, 85, 84>>   \* 0x84: "INPUT"
       [] d = 134 -> <<68, 73, 77>>   \* 0x86: "DIM"
       [] d = 135 -> <<82, 69, 65, 68>>   \* 0x87: "READ"
       [] d = 137 -> <<84, 69, 88, 84>>   \* 0x89: "TEXT"
       [] d = 138 -> <<80, 82, 32, 35>>   \* 0x8A: "PR #"
       [] d = 139 -> <<73, 78, 32, 35>>   \* 0x8B: "IN #"
       [] d = 140 -> <<67, 65, 76, 76>>   \* 0x8C: "CALL"
       [] d = 145 -> <<72, 71, 82>>   \* 0x91: "HGR"
       [] d = 146 -> <<72, 67, 79, 76, 79, 82, 61>>   \* 0x92: "HCOLOR="
       [] d = 147 -> <<72, 80, 76, 79, 84>>   \* 0x93: "HPLOT"
       [] d = 150 -> <<72, 84, 65, 66>>   \* 0x96: "HTAB"
       [] d = 151 -> <<72, 79, 77, 69>>   \* 0x97: "HOME"
       [] d = 157 -> <<78, 79, 82, 77, 65, 76>>   \* 0x9D: "NORMAL"
       [] d = 158 -> <<73, 78, 86, 69, 82, 83, 69>>   \* 0x9E: "INVERSE"
       [] d = 162 -> <<86, 84, 65, 66>>   \* 0xA2: "VTAB"
       [] d = 163 -> <<72, 73, 77, 69, 77, 58>>   \* 0xA3: "HIMEM:"
       [] d = 165 -> <<79, 78, 69, 82, 82>>   \* 0xA5: "ONERR"
       [] d = 171 -> <<71, 79, 84, 79>>   \* 0xAB: "GOTO"
       [] d = 173 -> <<73, 70>>   \* 0xAD: "IF"
       [] d = 176 -> <<71, 79, 83, 85, 66>>   \* 0xB0: "GOSUB"
       [] d = 177 -> <<82, 69, 84, 85, 82, 78>>   \* 0xB1: "RETURN"
       [] d = 178 -> <<82, 69, 77>>   \* 0xB2: "REM"
       [] d = 180 -> <<79, 78>>   \* 0xB4: "ON"
       [] d = 185 -> <<80, 79, 75, 69>>   \* 0xB9: "POKE"
       [] d = 186 -> <<80, 82, 73, 78, 84>>   \* 0xBA: "PRINT"
       [] d = 189 -> <<67, 76, 69, 65, 82>>   \* 0xBD: "CLEAR"
       [] d = 190 -> <<71, 69, 84>>   \* 0xBE: "GET"
       [] d = 192 -> <<84, 65, 66>>   \* 0xC0: "TAB"
       [] d = 193 -> <<84, 79>>   \* 0xC1: "TO"
       [] d = 195 -> <<83, 80, 67, 40>>   \* 0xC3: "SPC("
       [] d = 196 -> <<84, 72, 69, 78>>   \* 0xC4: "THEN"
       [] d = 199 -> <<83, 84, 69, 80>>   \* 0xC7: "STEP"
       [] d = 200 -> <<43>>   \* 0xC8: "+"
       [] d = 201 -> <<45>>   \* 0xC9: "-"
       [] d = 202 -> <<42>>   \* 0xCA: "*"
       [] d = 203 -> <<47>>   \* 0xCB: "/"
       [] d = 204 -> <<59>>   \* 0xCC: ";"
       [] d = 205 -> <<65, 78, 68>>   \* 0xCD: "AND"
       [] d = 206 -> <<79, 82>>   \* 0xCE: "OR"
       [] d = 207 -> <<62>>   \* 0xCF: ">"
       [] d = 208 -> <<61>>   \* 0xD0: "="
       [] d = 209 -> <<60>>   \* 0xD1: "<"
       [] d = 210 -> <<83, 71, 78>>   \* 0xD2: "SGN"
       [] d = 211 -> <<73, 78, 84>>   \* 0xD3: "INT"
       [] d = 212 -> <<65, 66, 83>>   \* 0xD4: "ABS"
       [] d = 214 -> <<70, 82, 69>>   \* 0xD6: "FRE"
       [] d = 218 -> <<83, 81, 82>>   \* 0xDA: "SQR"
       [] d = 219 -> <<82, 78, 68>>   \* 0xDB: "RND"
       [] d = 225 -> <<65, 84, 78>>   \* 0xE1: "ATN"
       [] d = 226 -> <<80, 69, 69, 75>>   \* 0xE2: "PEEK"
       [] d = 227 -> <<76, 69, 78>>   \* 0xE3: "LEN"
       [] d = 228 -> <<83, 84, 82, 36>>   \* 0xE4: "STR$"
       [] d = 229 -> <<86, 65, 76>>   \* 0xE5: "VAL"
       [] d = 231 -> <<67, 72, 82, 36>>   \* 0xE7: "CHR$"

\* "{}".format(n) for n >= 0: the decimal digits of n, as character codes
RECURSIVE Decimal(_)
Decimal(n) ==
  IF n < 10 THEN <<48 + n>> ELSE Decimal(n \div 10) \o <<48 + (n % 10)>>

\* Detokenize.read_byte on data (a function on 0..n-1) at index; ok is FALSE
\* when data[index] raises IndexError
read_byte(d, n, index) ==
  IF index < n THEN [ok |-> TRUE, v |-> d[index], index |-> index + 1]
  ELSE [ok |-> FALSE, v |-> 0, index |-> index]

\* Detokenize.read_word: low byte first
read_word(d, n, index) ==
  LET lo == read_byte(d, n, index)
      hi == read_byte(d, n, lo.index)
  IN  IF ~lo.ok THEN lo
      ELSE [ok |-> hi.ok, v |-> lo.v + 256 * hi.v, index |-> hi.index]

\* the else branch of detokenize writing "{}".format(token(d))
TokenText_Bare(d) == token(d)

\* the token written by the else branch of detokenize: " {} ".format(token(d))
TokenText(d) == <<32>> \o token(d) \o <<32>>

\* the inner "while True" loop of detokenize
RECURSIVE DetokLine(_, _, _, _)
DetokLine(d, n, index, out) ==
  LET b == read_byte(d, n, index) IN
  IF ~b.ok THEN [out |-> out, index |-> b.index, err |-> "IndexError"]
  ELSE IF b.v = 0 THEN [out |-> Append(out, 10), index |-> b.index, err |-> "none"]
  ELSE IF b.v <= 127 THEN DetokLine(d, n, b.index, Append(out, b.v))
  ELSE IF b.v \notin TOKENS THEN [out |-> out, index |-> b.index, err |-> "KeyError"]
  ELSE DetokLine(d, n, b.index, out \o TokenText(b.v))

\* the line prefix written by detokenize: "{} ".format(line_number)
LinePrefix(line_number) == Decimal(line_number) \o <<32>>

\* the outer "while self.index < length" loop of detokenize
RECURSIVE DetokLines(_, _, _, _, _)
DetokLines(d, n, index, length, out) ==
  IF ~(index < length) THEN [out |-> out, index |-> index, err |-> "none"]
  ELSE
    LET memory == read_word(d, n, index)
        line_number == read_word(d, n, memory.index)
    IN  IF ~memory.ok THEN [out |-> out, index |-> memory.index, err |-> "IndexError"]
        ELSE IF ~line_number.ok
          THEN [out |-> out, index |-> line_number.index, err |-> "IndexError"]
        ELSE
          LET r == DetokLine(d, n, line_number.index, out \o LinePrefix(line_number.v))
          IN  IF r.err # "none" THEN r ELSE DetokLines(d, n, r.index, length, r.out)

\* Detokenize(data).detokenize(), data a function on 0..n-1
detokenize(d, n) ==
  LET length == read_word(d, n, 0) IN
  IF ~length.ok THEN [out |-> <<>>, index |-> length.index, err |-> "IndexError"]
  ELSE DetokLines(d, n, length.index, length.v, <<>>)

\* a list (1-based sequence) as the 0-based data of Detokenize
ZeroBased(s) == [i \in 0 .. Len(s) - 1 |-> s[i + 1]]

(***************************************************************************)
(* a2disk.py: constants and byte helpers                                   *)
(***************************************************************************)

MAX_HOPS == 560

TRACKS_PER_DISK == 35
SECTORS_PER_TRACK == 16
SECTOR_SIZE == 256

\* bit_count with range(0x08) for range(0x10)
bit_count_Byte(word) ==
  LET on(j) == IF (word \div (2 ^ j)) % 2 # 0 THEN 1 ELSE 0
      RECURSIVE upto(_)
      upto(j) == IF j = 0 THEN 0 ELSE on(j - 1) + upto(j - 1)
  IN  upto(8)

\* the number of on-bits in the low 16 bits of word
bit_count(word) ==
  LET on(j) == IF (word \div (2 ^ j)) % 2 # 0 THEN 1 ELSE 0
      RECURSIVE upto(_)
      upto(j) == IF j = 0 THEN 0 ELSE on(j - 1) + upto(j - 1)
  IN  upto(16)

read_word_bigendian(buff, offset) == buff[offset] * 256 + buff[offset + 1]

read_word_littleendian(buff, offset) == buff[offset] + buff[offset + 1] * 256

(***************************************************************************)
(* The disk image.  img = [vtoc, cat, tsl]: the parameters of the VTOC     *)
(* sector at track 17 sector 0, the catalog sectors at track 17 sectors    *)
(* 15, 14, ..., and the track/sector list sectors at track 18 sectors 15,  *)
(* 14, ...  Track 19 holds two data sectors; every other sector is zero.   *)
(***************************************************************************)

VTOC_TRACK == 17
VTOC_SECTOR == 0

CATALOG_TRACK_OFFSET == 1
CATALOG_SECTOR_OFFSET == 2
VOLUME_NUMBER_OFFSET == 6
TRACK_MAP_OFFSET == 56
TRACK_MAP_SIZE == 4

\* VALIDATION without its last pair
VALIDATION_Short ==
  << <<3, 3>>, <<39, 122>>, <<52, 35>>, <<53, 16>>, <<54, 0>> >>

\* offset, value pairs for validating DOS 3.3 VTOC
VALIDATION ==
  << <<3, 3>>, <<39, 122>>, <<52, TRACKS_PER_DISK>>, <<53, SECTORS_PER_TRACK>>,
     <<54, SECTOR_SIZE % 256>>, <<55, SECTOR_SIZE \div 256>> >>

NEXT_TRACK_OFFSET == 1
NEXT_SECTOR_OFFSET == 2
ENTRY_OFFSET == 11
ENTRY_SIZE == 35

CatAddr(k) == <<17, 16 - k>>
TslAddr(k) == <<18, 16 - k>>

\* bytes of the VTOC sector described by v: catalog head at 1 and 2, volume
\* at 6, the six checked bytes, 35 four-byte track maps from 56 on (those of
\* track v.sp being v.spmap, the others v.fill), v.other everywhere else
VtocSector(v) ==
  [o \in 0 .. 255 |->
     IF o = 1 THEN v.cat[1]
     ELSE IF o = 2 THEN v.cat[2]
     ELSE IF o = 6 THEN v.vol
     ELSE IF o = 3 THEN v.chk[1]
     ELSE IF o = 39 THEN v.chk[2]
     ELSE IF o = 52 THEN v.chk[3]
     ELSE IF o = 53 THEN v.chk[4]
     ELSE IF o = 54 THEN v.chk[5]
     ELSE IF o = 55 THEN v.chk[6]
     ELSE IF o >= 56 /\ o < 196
       THEN LET t == (o - 56) \div 4
                j == (o - 56) % 4
            IN  IF t = v.sp THEN v.spmap[j + 1] ELSE v.fill[j + 1]
     ELSE v.other]

\* byte r of the 35-byte directory slot described by e
SlotByte(e, r) ==
  IF r = 0 THEN e.t
  ELSE IF r = 1 THEN e.s
  ELSE IF r = 2 THEN e.tl
  ELSE IF r < 33 THEN (IF r - 2 <= Len(e.name) THEN e.name[r - 2] ELSE e.pad)
  ELSE IF r = 33 THEN e.size % 256
  ELSE e.size \div 256

\* bytes of the catalog sector described by c = [next, slots]
CatSector(c) ==
  [o \in 0 .. 255 |->
     IF o = 1 THEN c.next[1]
     ELSE IF o = 2 THEN c.next[2]
     ELSE IF o >= 11 /\ (o - 11) \div 35 < Len(c.slots)
       THEN SlotByte(c.slots[(o - 11) \div 35 + 1], (o - 11) % 35)
     ELSE 0]

\* bytes of the track/sector list sector described by x = [next, ptrs]
TslSector(x) ==
  [o \in 0 .. 255 |->
     IF o = 1 THEN x.next[1]
     ELSE IF o = 2 THEN x.next[2]
     ELSE IF o >= 12 /\ (o - 12) \div 2 < Len(x.ptrs)
       THEN x.ptrs[(o - 12) \div 2 + 1][((o - 12) % 2) + 1]
     ELSE 0]

\* track 19 sector 0: the tokenized program 10 PRINT "HI"
ProgramSector ==
  LET s == <<13, 0, 1, 8, 10, 0, 186, 32, 34, 72, 73, 34, 0>>
  IN  [o \in 0 .. 255 |-> IF o < Len(s) THEN s[o + 1] ELSE 0]

\* track 19 sector 1: the text HI / BYE with the high bit set
TextSector ==
  LET s == <<200, 201, 141, 194, 217, 197, 141>>
  IN  [o \in 0 .. 255 |-> IF o < Len(s) THEN s[o + 1] ELSE 0]

ZeroSector == [o \in 0 .. 255 |-> 0]

\* the 256 bytes of sector (t, s) of the image, 0 <= t < 35, 0 <= s < 16
SectorContent(image, t, s) ==
  IF t = 17 /\ s = 0 THEN VtocSector(image.vtoc)
  ELSE IF t = 17 /\ 16 - s \in 1 .. Len(image.cat) THEN CatSector(image.cat[16 - s])
  ELSE IF t = 18 /\ 16 - s \in 1 .. Len(image.tsl) THEN TslSector(image.tsl[16 - s])
  ELSE IF t = 19 /\ s = 0 THEN ProgramSector
  ELSE IF t = 19 /\ s = 1 THEN TextSector
  ELSE ZeroSector

\* the byte at file offset k of the image
ImageByte(image, k) ==
  SectorContent(image, (k \div SECTOR_SIZE) \div SECTORS_PER_TRACK,
                (k \div SECTOR_SIZE) % SECTORS_PER_TRACK)[k % SECTOR_SIZE]

(***************************************************************************)
(* class Disk                                                              *)
(***************************************************************************)

\* Disk.seek_sect: the exception raised ("none" if none), whether
\* disk_image.seek was called, and the offset it was called with
seek_sect(t, s) ==
  IF t >= TRACKS_PER_DISK \/ s >= SECTORS_PER_TRACK
    THEN [err |-> "seek out of range", seeks |-> 0, off |-> 0]
  ELSE LET off == (t * SECTORS_PER_TRACK + s) * SECTOR_SIZE
       IN  IF off < 0 THEN [err |-> "OSError", seeks |-> 1, off |-> off]
           ELSE [err |-> "none", seeks |-> 1, off |-> off]

\* Disk.read_sect: the exception raised, the bytes returned, the seek and
\* read calls made on the image, and the file position afterwards
read_sect(image, p, t, s) ==
  LET sk == seek_sect(t, s) IN
  IF sk.err # "none"
    THEN [err |-> sk.err, at |-> -1, seeks |-> sk.seeks, reads |-> 0, pos |-> p]
  ELSE [err |-> "none", at |-> sk.off, seeks |-> 1, reads |-> 1,
        pos |-> sk.off + SECTOR_SIZE]

\* the buffer returned by a read of SECTOR_SIZE bytes at file offset off
Buffer(image, off) == [o \in 0 .. SECTOR_SIZE - 1 |-> ImageByte(image, off + o)]

\* the (track, sector) whose bytes lie at file offset off
AddrAt(off) ==
  <<(off \div SECTOR_SIZE) \div SECTORS_PER_TRACK, (off \div SECTOR_SIZE) % SECTORS_PER_TRACK>>

(***************************************************************************)
(* class VTOC                                                              *)
(***************************************************************************)

\* VTOC.validate: TRUE when no exception is raised
validate(buff) ==
  \A i \in 1 .. Len(VALIDATION) : buff[VALIDATION[i][1]] = VALIDATION[i][2]

track_map(buff, t) ==
  read_word_bigendian(buff, TRACK_MAP_OFFSET + t * TRACK_MAP_SIZE)

disk_volume(buff) == buff[VOLUME_NUMBER_OFFSET]

free_sectors(buff) ==
  LET RECURSIVE upto(_)
      upto(t) == IF t = 0 THEN 0
                 ELSE bit_count(track_map(buff, t - 1)) + upto(t - 1)
  IN  upto(TRACKS_PER_DISK)

catalog_track_sector(buff) ==
  <<buff[CATALOG_TRACK_OFFSET], buff[CATALOG_SECTOR_OFFSET]>>

(***************************************************************************)
(* Disk images drawn as inputs                                             *)
(***************************************************************************)

GoodChk == <<3, 122, 35, 16, 0, 1>>

DefaultVtoc ==
  [cat |-> CatAddr(1), vol |-> 254, chk |-> GoodChk, other |-> 0,
   fill |-> <<255, 255, 0, 0>>, sp |-> 0, spmap |-> <<0, 0, 0, 0>>]

\* values tried for the i-th checked byte: the expected one and two others
ChkVals(i) == {GoodChk[i], (GoodChk[i] + 1) % 256, 255 - GoodChk[i]}

\* VTOC sectors that differ in the checked bytes and in the unchecked ones
VtocChkInputs ==
  {[DefaultVtoc EXCEPT !.chk = c, !.other = x] :
     c \in ChkVals(1) \X ChkVals(2) \X ChkVals(3) \X ChkVals(4) \X ChkVals(5) \X ChkVals(6),
     x \in {0, 255}}

\* valid VTOC sectors that differ in the free-sector bitmaps
VtocMapInputs ==
  {[DefaultVtoc EXCEPT !.fill = f, !.sp = t, !.spmap = m, !.vol = v] :
     f \in {<<0, 0, 0, 0>>, <<255, 255, 0, 0>>, <<255, 255, 255, 255>>},
     t \in {0, 34}, m \in [1 .. 4 -> {0, 1, 128, 255}], v \in {254}}

EmptyImage(v) == [vtoc |-> v, cat |-> <<>>, tsl |-> <<>>]

NoRet == <<>>

(***************************************************************************)
(* Inputs of the de-tokenizer: a program is a list of lines, each with a   *)
(* back-pointer, a line number and a body of non-zero bytes; the stream is *)
(* the length word, the line records, and trailing zero bytes.             *)
(***************************************************************************)

\* longest enumerated line body
MaxBody == 2

\* most lines of an enumerated program
MaxLines == 2

\* most trailing zero bytes after the last record
MaxPad == 2


\* PRINT " H I ", the line body of the listing 10 PRINT "HI"
HiBody == <<186, 32, 34, 72, 73, 34>>

\* body bytes: space, H, DEL, the token END, and two bytes
\* (0x85, 0xFF) that the dictionary of token() does not hold
BodyBytes == {32, 72, 127, 128, 133, 255}

SeqsUpTo(S, n) == UNION {[1 .. k -> S] : k \in 0 .. n}

Bodies == SeqsUpTo(BodyBytes, MaxBody) \cup {HiBody}

LineNumbers == {0, 10, 65535}

FirstLines == [mem : {2049}, num : LineNumbers, body : Bodies]
MoreLines  == [mem : {0}, num : {20}, body : {<<>>, <<128>>, <<133, 72>>}]

Programs ==
  {<<l>> : l \in FirstLines}
  \cup UNION {{<<l>> \o m : m \in [1 .. k -> MoreLines]} : k \in 1 .. MaxLines - 1, l \in FirstLines}

WordBytes(w) == <<w % 256, w \div 256>>

EncodeLine(l) == WordBytes(l.mem) \o WordBytes(l.num) \o l.body \o <<0>>

RECURSIVE EncodeLines(_)
EncodeLines(ls) ==
  IF ls = <<>> THEN <<>> ELSE EncodeLine(Head(ls)) \o EncodeLines(Tail(ls))

\* stream offset just after the last record of the program
EndOffset(ls) == 2 + Len(EncodeLines(ls))

Lengths(ls) ==
  {0, 3, EndOffset(ls) - 1, EndOffset(ls), EndOffset(ls) + 5,
   2 + Len(EncodeLine(ls[1])), 3 + Len(EncodeLine(ls[1]))}

Stream(p) ==
  WordBytes(p.length) \o EncodeLines(p.lines) \o [i \in 1 .. p.pad |-> 0]

RunIdle ==
  /\ cmd = "none" /\ file_name = <<>>
  /\ hop = 0 /\ track = 0 /\ sector = 0
  /\ yielded = <<>> /\ result = <<>>
  /\ handler = "none" /\ entered = 0 /\ exited = 0
  /\ delivered = <<>> /\ output = <<>> /\ detok_runs = 0
  /\ track_sector_list_sector = <<>> /\ slot_offset = 0

DiskIdle == disk_open = FALSE /\ pos = 0 /\ nseek = 0 /\ nread = 0

DetokIdle == dt_prog = <<>> /\ dt_data = <<>> /\ listing = NoListing

NoImage == <<>>

InitDetok ==
  /\ pc = "ready" /\ img = NoImage /\ err = "none" /\ ret = <<>> /\ vtoc_buffer = <<>>
  /\ DiskIdle /\ RunIdle
  /\ \E ls \in Programs :
       \E n \in Lengths(ls), k \in {0, MaxPad} :
         dt_prog = [lines |-> ls, length |-> n, pad |-> k]
  /\ dt_data = Stream(dt_prog)
  /\ listing = NoListing

\* Detokenize(data).detokenize()
DetokRun ==
  /\ pc = "ready"
  /\ listing' = detokenize(ZeroBased(dt_data), Len(dt_data))
  /\ pc' = "done"
  /\ UNCHANGED <<img, err, ret, vtoc_buffer, dt_prog, dt_data>>
  /\ UNCHANGED diskVars /\ UNCHANGED runVars

NextDetok == DetokRun

SpecDetok == InitDetok /\ [][NextDetok]_vars

(***************************************************************************)
(* A client of class Disk: enters the context, reads sectors, leaves.      *)
(***************************************************************************)

\* read_sect calls made by the enumerated client
MaxCalls == 2


TrackArgs  == {-1, 0, 1, 17, 34, 35, 255}
SectorArgs == {-1, 0, 15, 16, 255}

InitDisk ==
  /\ pc = "closed" /\ img = EmptyImage(DefaultVtoc) /\ err = "none"
  /\ ret = [n |-> 0, t |-> 0, s |-> 0, err |-> "none", seeks |-> 0, reads |-> 0,
            buf |-> <<>>]
  /\ vtoc_buffer = <<>>
  /\ DiskIdle /\ RunIdle /\ DetokIdle

\* Disk.__enter__
DiskEnter ==
  /\ pc = "closed"
  /\ pc' = "open" /\ disk_open' = TRUE /\ pos' = 0
  /\ UNCHANGED <<img, err, ret, vtoc_buffer, nseek, nread>>
  /\ UNCHANGED runVars /\ UNCHANGED detokVars

\* Disk.read_sect(t, s); the client catches the exception, if any
DiskReadSect(t, s) ==
  /\ pc = "open" /\ ret.n < MaxCalls
  /\ LET r == read_sect(img, pos, t, s) IN
       /\ ret' = [n |-> ret.n + 1, t |-> t, s |-> s, err |-> r.err,
                  seeks |-> r.seeks, reads |-> r.reads,
                  buf |-> IF r.err = "none" THEN Buffer(img, r.at) ELSE <<>>]
       /\ pos' = r.pos
       /\ nseek' = nseek + r.seeks
       /\ nread' = nread + r.reads
  /\ UNCHANGED <<pc, img, err, vtoc_buffer, disk_open>>
  /\ UNCHANGED runVars /\ UNCHANGED detokVars

\* Disk.__exit__
DiskExit ==
  /\ pc = "open"
  /\ pc' = "done" /\ disk_open' = FALSE
  /\ UNCHANGED <<img, err, ret, vtoc_buffer, pos, nseek, nread>>
  /\ UNCHANGED runVars /\ UNCHANGED detokVars

NextDisk ==
  \/ DiskEnter
  \/ \E t \in TrackArgs, s \in SectorArgs : DiskReadSect(t, s)
  \/ DiskExit

SpecDisk == InitDisk /\ [][NextDisk]_vars

(***************************************************************************)
(* A client of class VTOC: constructs it and reads its properties.         *)
(***************************************************************************)

InitVTOC ==
  /\ pc = "ready" /\ err = "none" /\ ret = NoRet /\ vtoc_buffer = <<>>
  /\ \E v \in VtocChkInputs \cup VtocMapInputs : img = EmptyImage(v)
  /\ disk_open = TRUE /\ pos = 0 /\ nseek = 0 /\ nread = 0
  /\ RunIdle /\ DetokIdle

\* VTOC.__init__: read the sector, then validate()
VtocInit ==
  /\ pc = "ready"
  /\ LET r == read_sect(img, pos, VTOC_TRACK, VTOC_SECTOR) IN
       /\ pos' = r.pos /\ nseek' = nseek + r.seeks /\ nread' = nread + r.reads
       /\ vtoc_buffer' = Buffer(img, r.at)
       /\ IF validate(Buffer(img, r.at))
            THEN pc' = "vtoc" /\ err' = err
            ELSE pc' = "done" /\ err' = "not an Apple DOS 3.3 disk"
  /\ UNCHANGED <<img, ret, disk_open>>
  /\ UNCHANGED runVars /\ UNCHANGED detokVars

\* the properties disk_volume, free_sectors and catalog_track_sector
VtocProperties ==
  /\ pc = "vtoc"
  /\ ret' = [disk_volume |-> disk_volume(vtoc_buffer),
             free_sectors |-> free_sectors(vtoc_buffer),
             catalog_track_sector |-> catalog_track_sector(vtoc_buffer)]
  /\ pc' = "done"
  /\ UNCHANGED <<img, err, vtoc_buffer>>
  /\ UNCHANGED diskVars /\ UNCHANGED runVars /\ UNCHANGED detokVars

NextVTOC == VtocInit \/ VtocProperties

SpecVTOC == InitVTOC /\ [][NextVTOC]_vars

(***************************************************************************)
(* class Catalog                                                           *)
(***************************************************************************)

\* the keys of Catalog.FILE_TYPES
FILE_TYPES == {0, 1, 2, 4, 8, 16, 32, 64}

\* None, the value of a callback or a walk that returns nothing
None == <<>>

\* the slot test on the lock and type byte instead of the first name byte
SlotInUse_TypeByte(catalog_sector, i) ==
  catalog_sector[i] # 255 /\ catalog_sector[i + 2] # 0

\* the test of walk_entries on the slot at offset i: buff = catalog_sector[i:]
SlotInUse(catalog_sector, i) ==
  catalog_sector[i] # 255 /\ catalog_sector[i + 3] # 0

\* the callback arguments walk_entries decodes from the slot at offset i
DecodeEntry(catalog_sector, i) ==
  [track     |-> catalog_sector[i],
   sector    |-> catalog_sector[i + 1],
   locked    |-> (catalog_sector[i + 2] \div 128) * 128,
   file_type |-> catalog_sector[i + 2] % 128,
   size      |-> read_word_littleendian(catalog_sector, i + 33),
   name      |-> [j \in 1 .. 30 |-> catalog_sector[i + 2 + j] % 128]]

\* "{:30s}".format(find_name): padded with spaces to 30, never cut
Pad30(find_name) ==
  find_name \o [j \in 1 .. (IF Len(find_name) < 30 THEN 30 - Len(find_name) ELSE 0) |-> 32]

\* print_entry of catalog(): raises KeyError on a type FILE_TYPES lacks,
\* else prints a line and returns None
print_entry(e) ==
  IF e.file_type \notin FILE_TYPES
    THEN [err |-> "KeyError", out |-> <<>>, result |-> None]
    ELSE [err |-> "none", out |-> <<[k |-> "entry", v |-> e]>>, result |-> None]

\* the callback comparing only the characters of find_name, unpadded
find_callback_Prefix(find_name, e) ==
  [err |-> "none", out |-> <<>>,
   result |-> IF Len(find_name) <= 30 /\ SubSeq(e.name, 1, Len(find_name)) = find_name
                THEN <<e.track, e.sector, e.file_type>> ELSE None]

\* the callback find_entry(find_name) of dump()
find_callback(find_name, e) ==
  [err |-> "none", out |-> <<>>,
   result |-> IF e.name = Pad30(find_name)
                THEN <<e.track, e.sector, e.file_type>> ELSE None]

\* a callback cb = [kind, find_name] applied to an entry
CallEntryCallback(cb, e) ==
  IF cb.kind = "print" THEN print_entry(e) ELSE find_callback(cb.find_name, e)

\* the exclusive end of range(Catalog.ENTRY_OFFSET, 0xFF, Catalog.ENTRY_SIZE)
ENTRY_RANGE_END == 255

\* the for loop of walk_entries over one catalog sector, from offset i on:
\* the callback calls made, what they printed, and the exception or the
\* truthy result that ended the loop early
RECURSIVE ScanEntries(_, _, _, _)
ScanEntries(catalog_sector, i, cb, acc) ==
  IF i >= ENTRY_RANGE_END THEN acc
  ELSE IF ~SlotInUse(catalog_sector, i)
    THEN ScanEntries(catalog_sector, i + ENTRY_SIZE, cb, acc)
  ELSE
    LET e == DecodeEntry(catalog_sector, i)
        r == CallEntryCallback(cb, e)
        a == [calls |-> Append(acc.calls, e), out |-> acc.out \o r.out,
              err |-> r.err, result |-> r.result]
    IN  IF r.err # "none" \/ r.result # None THEN a
        ELSE ScanEntries(catalog_sector, i + ENTRY_SIZE, cb, a)

\* the hop test of both walkers, on the incremented hop
HopsExceeded(h) == h >= MAX_HOPS

\* the loop test on both bytes of the pointer
ChainContinues_Both(t, s) == t # 0 \/ s # 0

\* the loop test of both walkers
ChainContinues(t, s) == t # 0

(***************************************************************************)
(* class Files and the file handlers                                       *)
(***************************************************************************)

\* the start, the exclusive end and the step of range(0x0C, 0xFF, 0x02)
SLOT_RANGE_START == 12

SLOT_RANGE_END == 255

SLOT_RANGE_STEP == 2

\* what receive_sector_data of the handler prints for the sector at addr
ReceiveOutput(h, addr) ==
  IF h = "TextHandler" THEN <<[k |-> "text", v |-> addr]>>
  ELSE IF h = "DefaultHandler" THEN <<[k |-> "hexdump", v |-> addr]>>
  ELSE <<>>

\* the scan ending at any slot of track 0
SlotEnds_TrackOnly(file_track, file_sector) == file_track = 0

\* the test that ends the scan of a track/sector list sector
SlotEnds(file_track, file_sector) == file_track = 0 /\ file_sector = 0

\* FILE_HANDLERS.get(file_type, DefaultHandler)
HandlerFor(file_type) ==
  IF file_type = 0 THEN "TextHandler"
  ELSE IF file_type = 2 THEN "ApplesoftHandler"
  ELSE "DefaultHandler"

\* ApplesoftHandler.data after the sectors at the addresses in ds were
\* received: byte i of the concatenation, and its length
HandlerData(image, ds) ==
  [i \in 0 .. SECTOR_SIZE * Len(ds) - 1 |->
     SectorContent(image, ds[(i \div SECTOR_SIZE) + 1][1],
                   ds[(i \div SECTOR_SIZE) + 1][2])[i % SECTOR_SIZE]]

HandlerDataLen(ds) == SECTOR_SIZE * Len(ds)

(***************************************************************************)
(* Images and arguments of the commands catalog and dump                   *)
(***************************************************************************)

\* most directory slots filled in an enumerated catalog
MaxSlots == 2

\* most catalog sectors of an enumerated chain
MaxCatSectors == 2

\* most track/sector list slots filled in an enumerated file
MaxPtrs == 2

\* most track/sector list sectors of an enumerated chain
MaxTslSectors == 2


\* names, as character codes
NameHELLO == <<72, 69, 76, 76, 79>>
NameT     == <<84>>
NameHI    == <<72, 73>>
NameH     == <<72>>
NameLoHi  == <<104, 105>>
NameGONE  == <<71, 79, 78, 69>>
NameNOPE  == <<78, 79, 80, 69>>

\* a name as DOS stores it: high bit set
HiBit(s) == [j \in 1 .. Len(s) |-> s[j] + 128]

\* directory slots
SlotHello   == [t |-> 18, s |-> 15, tl |-> 130, name |-> HiBit(NameHELLO), pad |-> 160, size |-> 3]
SlotText    == [t |-> 18, s |-> 15, tl |-> 0, name |-> HiBit(NameT), pad |-> 160, size |-> 2]
SlotBinary  == [t |-> 18, s |-> 15, tl |-> 4, name |-> <<200, 73>>, pad |-> 32, size |-> 258]
SlotDeleted == [t |-> 255, s |-> 15, tl |-> 2, name |-> HiBit(NameGONE), pad |-> 160, size |-> 3]
SlotUnused  == [t |-> 0, s |-> 0, tl |-> 0, name |-> <<>>, pad |-> 0, size |-> 0]
SlotNoName  == [t |-> 18, s |-> 14, tl |-> 130, name |-> <<0, 200>>, pad |-> 160, size |-> 1]
SlotBadType == [t |-> 18, s |-> 15, tl |-> 3, name |-> HiBit(NameH), pad |-> 160, size |-> 1]

SlotKinds == {SlotHello, SlotText, SlotDeleted, SlotNoName}

\* a full catalog sector: all 7 slots filled
FullSlots ==
  <<SlotDeleted, SlotHello, SlotUnused, SlotText, SlotNoName, SlotBinary, SlotText>>

\* data pointers: the program sector, a sector of track 0, the end-of-list
\* slot, a track beyond the disk
PtrProg == <<19, 0>>
PtrTrk0 == <<0, 7>>
PtrEnd  == <<0, 0>>
PtrOut  == <<35, 1>>
PtrText == <<19, 1>>

PtrKinds == {PtrProg, PtrTrk0, PtrEnd, PtrOut}

\* a full track/sector list sector: all 122 slots filled
FullPtrs == [q \in 1 .. 122 |-> IF q % 2 = 1 THEN PtrProg ELSE PtrTrk0]

\* next-pointers that end a chain: (0,0), track 0 with a sector, a track
\* beyond the disk
LastNexts == {<<0, 0>>, <<0, 5>>, <<35, 0>>}

\* a next-pointer whose sector lies beyond the track
SectorBeyond == <<1, 16>>

\* the ways of cutting list L into n consecutive chunks
RECURSIVE Splits(_, _)
Splits(L, n) ==
  IF n = 1 THEN {<<L>>}
  ELSE UNION {{<<SubSeq(L, 1, k)>> \o r : r \in Splits(SubSeq(L, k + 1, Len(L)), n - 1)} :
                k \in 0 .. Len(L)}

\* catalog sectors holding the chunks, chained, the last one pointing to last
CatChain(chunks, last) ==
  [k \in 1 .. Len(chunks) |->
     [next |-> IF k < Len(chunks) THEN CatAddr(k + 1) ELSE last, slots |-> chunks[k]]]

\* track/sector list sectors holding the chunks, chained likewise
TslChain(chunks, last) ==
  [k \in 1 .. Len(chunks) |->
     [next |-> IF k < Len(chunks) THEN TslAddr(k + 1) ELSE last, ptrs |-> chunks[k]]]

DefaultCat == CatChain(<<<<SlotDeleted, SlotHello, SlotText, SlotBinary, SlotUnused>>>>, <<0, 0>>)
DefaultTsl == TslChain(<<<<PtrProg>>>>, <<0, 0>>)

\* catalogs for the catalog command
CatChains ==
  UNION {UNION {{CatChain(c, last) : c \in Splits(L, n), last \in LastNexts} :
                  n \in 1 .. MaxCatSectors} :
           L \in SeqsUpTo(SlotKinds, MaxSlots)}
  \cup {CatChain(<<FullSlots>>, <<0, 0>>),
        CatChain(<<<<SlotHello, SlotBadType, SlotText>>>>, <<0, 0>>),
        CatChain(<<<<SlotHello>>, <<SlotText>>>>, SectorBeyond)}

\* catalogs whose chain runs in a cycle
CatCycles ==
  UNION {{CatChain([k \in 1 .. n |-> IF k = 1 THEN first ELSE <<>>], CatAddr(1)) :
            first \in {<<>>, <<SlotHello>>}} : n \in 1 .. MaxCatSectors}

\* track/sector lists for the dump command
TslChains ==
  UNION {UNION {{TslChain(c, last) : c \in Splits(L, n), last \in LastNexts} :
                  n \in 1 .. MaxTslSectors} :
           L \in SeqsUpTo(PtrKinds, MaxPtrs)}
  \cup {TslChain(<<FullPtrs>>, <<0, 0>>),
        TslChain(<<<<PtrProg>>, <<PtrTrk0>>>>, SectorBeyond)}

TslFew ==
  {TslChain(<<L>>, <<0, 0>>) : L \in SeqsUpTo({PtrProg, PtrText, PtrOut}, MaxPtrs)}

TslCycles ==
  UNION {{TslChain([k \in 1 .. n |-> IF k = 1 THEN first ELSE <<>>], TslAddr(1)) :
            first \in {<<>>, <<PtrProg>>}} : n \in 1 .. MaxTslSectors}

BadVtoc == [DefaultVtoc EXCEPT !.chk = <<3, 122, 35, 16, 0, 2>>]

\* catalog heads in the VTOC: no catalog, track 0, beyond the disk
OddHeads == {<<0, 0>>, <<0, 9>>, <<35, 0>>}

Image(v, c, x) == [vtoc |-> v, cat |-> c, tsl |-> x]

CatalogImages ==
  {Image(DefaultVtoc, c, DefaultTsl) : c \in CatChains \cup CatCycles}
  \cup {Image([DefaultVtoc EXCEPT !.cat = h], DefaultCat, DefaultTsl) : h \in OddHeads}
  \cup {Image(BadVtoc, DefaultCat, DefaultTsl)}

\* file names given to dump, the last two 30 and 31 characters long
FileNames ==
  {NameHELLO, NameT, NameHI, NameH, NameLoHi, NameGONE, NameNOPE,
   Pad30(NameHI), Pad30(NameHI) \o <<32>>}

\* a catalog whose second sector holds the entries
TwoSectorCat ==
  CatChain(<<<<SlotDeleted, SlotNoName>>, <<SlotBinary, SlotHello, SlotText>>>>, <<0, 0>>)

LookupCats ==
  {DefaultCat, TwoSectorCat,
   CatChain(<<<<SlotHello>>>>, CatAddr(1)),
   CatChain(<<<<SlotHello>>>>, <<35, 0>>)}

\* images and file names for the dump command
DumpInputs ==
  {<<Image(DefaultVtoc, DefaultCat, x), NameT>> : x \in TslChains}
  \cup {<<Image(DefaultVtoc, DefaultCat, x), f>> :
          x \in TslFew, f \in {NameHELLO, NameHI}}
  \cup {<<Image(DefaultVtoc, DefaultCat, x), f>> :
          x \in TslCycles, f \in {NameT, NameHELLO, NameHI}}
  \cup {<<Image(DefaultVtoc, c, DefaultTsl), f>> : c \in LookupCats, f \in FileNames}
  \cup {<<Image(BadVtoc, DefaultCat, DefaultTsl), NameT>>}

(***************************************************************************)
(* The commands: catalog(image_name) and dump(image_name, file_name)       *)
(***************************************************************************)

InitRun ==
  /\ pc = "start" /\ err = "none" /\ ret = NoRet /\ vtoc_buffer = <<>>
  /\ \/ /\ cmd = "catalog" /\ file_name = <<>>
        /\ img \in CatalogImages
     \/ /\ cmd = "dump"
        /\ \E d \in DumpInputs : img = d[1] /\ file_name = d[2]
  /\ hop = 0 /\ track = 0 /\ sector = 0
  /\ yielded = <<>> /\ result = None
  /\ handler = "none" /\ entered = 0 /\ exited = 0
  /\ delivered = <<>> /\ output = <<>> /\ detok_runs = 0
  /\ track_sector_list_sector = <<>> /\ slot_offset = 0
  /\ DiskIdle /\ DetokIdle

\* an exception leaves the "with Disk(...)" block: Disk.__exit__ closes the image
Raise(e) == err' = e /\ pc' = "done" /\ disk_open' = FALSE

\* the callback the command passes to walk_entries
EntryCallback ==
  IF cmd = "catalog" THEN [kind |-> "print", find_name |-> <<>>]
  ELSE [kind |-> "find", find_name |-> file_name]

\* Disk.__enter__, VTOC(disk) and, for catalog, the header; then the first
\* two lines of walk_entries
RunStart ==
  /\ pc = "start"
  /\ LET r == read_sect(img, 0, VTOC_TRACK, VTOC_SECTOR)
         b == Buffer(img, r.at)
     IN  /\ pos' = r.pos /\ nseek' = nseek + r.seeks /\ nread' = nread + r.reads
         /\ vtoc_buffer' = b
         /\ IF ~validate(b)
              THEN /\ Raise("not an Apple DOS 3.3 disk")
                   /\ UNCHANGED <<output, hop, track, sector>>
              ELSE /\ pc' = "walk_entries" /\ err' = err /\ disk_open' = TRUE
                   /\ output' = IF cmd = "catalog"
                                  THEN <<[k |-> "header",
                                          v |-> <<disk_volume(b), free_sectors(b)>>]>>
                                  ELSE output
                   /\ hop' = 0
                   /\ track' = catalog_track_sector(b)[1]
                   /\ sector' = catalog_track_sector(b)[2]
  /\ UNCHANGED <<img, ret, cmd, file_name, yielded, result, handler, entered,
                 exited, delivered, detok_runs>>
  /\ UNCHANGED detokVars
  /\ UNCHANGED slotVars

\* one pass of the while loop of Catalog.walk_entries
WalkEntriesHop ==
  /\ pc = "walk_entries" /\ ChainContinues(track, sector)
  /\ hop' = hop + 1
  /\ IF HopsExceeded(hop + 1)
       THEN /\ Raise("exceeded catalog hops")
            /\ UNCHANGED <<pos, nseek, nread, yielded, output, result, track, sector>>
       ELSE
         LET r == read_sect(img, pos, track, sector) IN
         /\ pos' = r.pos /\ nseek' = nseek + r.seeks /\ nread' = nread + r.reads
         /\ IF r.err # "none"
              THEN /\ Raise(r.err)
                   /\ UNCHANGED <<yielded, output, result, track, sector>>
              ELSE
                LET catalog_sector == Buffer(img, r.at)
                    sc == ScanEntries(catalog_sector, ENTRY_OFFSET, EntryCallback,
                            [calls |-> <<>>, out |-> <<>>, err |-> "none", result |-> None])
                IN  /\ yielded' = yielded \o sc.calls
                    /\ output' = output \o sc.out
                    /\ IF sc.err # "none"
                         THEN Raise(sc.err) /\ UNCHANGED <<result, track, sector>>
                         ELSE IF sc.result # None
                           THEN /\ result' = sc.result /\ pc' = "returned"
                                /\ UNCHANGED <<err, disk_open, track, sector>>
                           ELSE /\ track' = catalog_sector[NEXT_TRACK_OFFSET]
                                /\ sector' = catalog_sector[NEXT_SECTOR_OFFSET]
                                /\ UNCHANGED <<pc, err, disk_open, result>>
  /\ UNCHANGED <<img, ret, vtoc_buffer, cmd, file_name, handler, entered, exited,
                 delivered, detok_runs>>
  /\ UNCHANGED detokVars
  /\ UNCHANGED slotVars

\* the while loop of walk_entries ends: the method returns None
WalkEntriesEnd ==
  /\ pc = "walk_entries" /\ ~ChainContinues(track, sector)
  /\ pc' = "returned" /\ result' = None
  /\ UNCHANGED <<img, err, ret, vtoc_buffer, cmd, file_name, hop, track, sector,
                 yielded, handler, entered, exited, delivered, output, detok_runs>>
  /\ UNCHANGED diskVars /\ UNCHANGED detokVars
  /\ UNCHANGED slotVars

\* catalog(): the closing print() and Disk.__exit__
CatalogDone ==
  /\ pc = "returned" /\ cmd = "catalog"
  /\ output' = Append(output, [k |-> "blank", v |-> <<>>])
  /\ pc' = "done" /\ disk_open' = FALSE
  /\ UNCHANGED <<img, err, ret, vtoc_buffer, cmd, file_name, hop, track, sector,
                 yielded, result, handler, entered, exited, delivered, detok_runs,
                 pos, nseek, nread>>
  /\ UNCHANGED detokVars
  /\ UNCHANGED slotVars

\* dump(): "if result:" fails
DumpNotFound ==
  /\ pc = "returned" /\ cmd = "dump" /\ result = None
  /\ Raise("file not found")
  /\ UNCHANGED <<img, ret, vtoc_buffer, cmd, file_name, hop, track, sector,
                 yielded, result, handler, entered, exited, delivered, output,
                 detok_runs, pos, nseek, nread>>
  /\ UNCHANGED detokVars
  /\ UNCHANGED slotVars

\* dump(): the handler is chosen, made and entered; then the first two
\* lines of walk_sectors
DumpFound ==
  /\ pc = "returned" /\ cmd = "dump" /\ result # None
  /\ handler' = HandlerFor(result[3])
  /\ entered' = entered + 1
  /\ hop' = 0 /\ track' = result[1] /\ sector' = result[2]
  /\ pc' = "walk_sectors"
  /\ UNCHANGED <<img, err, ret, vtoc_buffer, cmd, file_name, yielded, result,
                 exited, delivered, output, detok_runs>>
  /\ UNCHANGED diskVars /\ UNCHANGED detokVars
  /\ UNCHANGED slotVars

\* the exception leaving dump() without handler.__exit__ being called
RaiseInWith_NoExit(e) == err' = e /\ pc' = "done"

\* an exception leaves the "with handler() as callback" block
RaiseInWith(e) == err' = e /\ pc' = "exit"

\* the while loop of Files.walk_sectors is entered: the hop test and the
\* read of the track/sector list sector; the for loop starts
WalkSectorsHop ==
  /\ pc = "walk_sectors" /\ ChainContinues(track, sector)
  /\ hop' = hop + 1
  /\ IF HopsExceeded(hop + 1)
       THEN /\ RaiseInWith("exceeded track/sector list hops")
            /\ UNCHANGED <<pos, nseek, nread>> /\ UNCHANGED slotVars
       ELSE
         LET r == read_sect(img, pos, track, sector) IN
         /\ pos' = r.pos /\ nseek' = nseek + r.seeks /\ nread' = nread + r.reads
         /\ IF r.err # "none"
              THEN RaiseInWith(r.err) /\ UNCHANGED slotVars
              ELSE /\ track_sector_list_sector' = Buffer(img, r.at)
                   /\ slot_offset' = SLOT_RANGE_START
                   /\ pc' = "for_slots" /\ err' = err
  /\ UNCHANGED <<img, ret, vtoc_buffer, cmd, file_name, track, sector, yielded,
                 result, handler, entered, exited, delivered, output, detok_runs,
                 disk_open>>
  /\ UNCHANGED detokVars

\* one pass of the for loop of walk_sectors that reaches the callback: the
\* data sector of the slot is read and handed to the handler
WalkSectorsSlot ==
  /\ pc = "for_slots" /\ slot_offset < SLOT_RANGE_END
  /\ LET file_track == track_sector_list_sector[slot_offset]
         file_sector == track_sector_list_sector[slot_offset + 1]
     IN  /\ ~SlotEnds(file_track, file_sector)
         /\ LET r == read_sect(img, pos, file_track, file_sector) IN
            /\ pos' = r.pos /\ nseek' = nseek + r.seeks /\ nread' = nread + r.reads
            /\ IF r.err # "none"
                 THEN /\ RaiseInWith(r.err)
                      /\ UNCHANGED <<delivered, output, slot_offset>>
                 ELSE /\ delivered' = Append(delivered, AddrAt(r.at))
                      /\ output' = output \o ReceiveOutput(handler, AddrAt(r.at))
                      /\ slot_offset' = slot_offset + SLOT_RANGE_STEP
                      /\ UNCHANGED <<pc, err>>
  /\ UNCHANGED <<img, ret, vtoc_buffer, cmd, file_name, hop, track, sector, yielded,
                 result, handler, entered, exited, detok_runs, disk_open,
                 track_sector_list_sector>>
  /\ UNCHANGED detokVars

\* the for loop of walk_sectors ends, by the break or at the end of the
\* range: the next-pointer of the track/sector list sector is taken
WalkSectorsNext ==
  /\ pc = "for_slots"
  /\ \/ slot_offset >= SLOT_RANGE_END
     \/ /\ slot_offset < SLOT_RANGE_END
        /\ SlotEnds(track_sector_list_sector[slot_offset],
                    track_sector_list_sector[slot_offset + 1])
  /\ track' = track_sector_list_sector[1]
  /\ sector' = track_sector_list_sector[2]
  /\ pc' = "walk_sectors"
  /\ UNCHANGED <<img, err, ret, vtoc_buffer, cmd, file_name, hop, yielded, result,
                 handler, entered, exited, delivered, output, detok_runs>>
  /\ UNCHANGED diskVars /\ UNCHANGED detokVars /\ UNCHANGED slotVars

\* the while loop of walk_sectors ends: the "with" block is left normally
WalkSectorsEnd ==
  /\ pc = "walk_sectors" /\ ~ChainContinues(track, sector)
  /\ pc' = "exit"
  /\ UNCHANGED <<img, err, ret, vtoc_buffer, cmd, file_name, hop, track, sector,
                 yielded, result, handler, entered, exited, delivered, output,
                 detok_runs>>
  /\ UNCHANGED diskVars /\ UNCHANGED detokVars
  /\ UNCHANGED slotVars

\* handler.__exit__ (ApplesoftHandler runs the de-tokenizer, whose exception
\* replaces the one in flight), then Disk.__exit__
HandlerExit ==
  /\ pc = "exit"
  /\ exited' = exited + 1
  /\ IF handler = "ApplesoftHandler"
       THEN LET r == detokenize(HandlerData(img, delivered), HandlerDataLen(delivered))
            IN  /\ listing' = r
                /\ detok_runs' = detok_runs + 1
                /\ dt_data' = delivered
                /\ output' = IF r.out = <<>> THEN output
                             ELSE Append(output, [k |-> "listing", v |-> r.out])
                /\ err' = IF r.err # "none" THEN r.err ELSE err
       ELSE UNCHANGED <<listing, detok_runs, dt_data, output, err>>
  /\ pc' = "done" /\ disk_open' = FALSE
  /\ UNCHANGED <<img, ret, vtoc_buffer, cmd, file_name, hop, track, sector,
                 yielded, result, handler, entered, delivered, dt_prog,
                 pos, nseek, nread>>
  /\ UNCHANGED slotVars

NextRun ==
  \/ RunStart
  \/ WalkEntriesHop
  \/ WalkEntriesEnd
  \/ CatalogDone
  \/ DumpNotFound
  \/ DumpFound
  \/ WalkSectorsHop
  \/ WalkSectorsSlot
  \/ WalkSectorsNext
  \/ WalkSectorsEnd
  \/ HandlerExit

Spec == InitRun /\ [][NextRun]_vars

(***************************************************************************)
(* Properties of the de-tokenizer (SpecDetok)                              *)
(***************************************************************************)

\* the text of one byte of a line body: itself up to 0x7F, else the keyword
\* between two spaces
RenderByte(b) == IF b <= 127 THEN <<b>> ELSE <<32>> \o token(b) \o <<32>>

\* the listing of the lines ls whose records start below the length
\* ceiling, the first record lying at stream offset off; the listing stops
\* at the first token byte the table lacks
RECURSIVE ListBody(_, _)
ListBody(body, out) ==
  IF body = <<>> THEN [out |-> Append(out, 10), err |-> "none"]
  ELSE IF Head(body) > 127 /\ Head(body) \notin TOKENS THEN [out |-> out, err |-> "KeyError"]
  ELSE ListBody(Tail(body), out \o RenderByte(Head(body)))

RECURSIVE ListLines(_, _, _, _)
ListLines(ls, off, length, out) ==
  IF ls = <<>> \/ off >= length THEN [out |-> out, err |-> "none"]
  ELSE LET r == ListBody(Head(ls).body, out \o Decimal(Head(ls).num) \o <<32>>)
       IN  IF r.err # "none" THEN r
           ELSE ListLines(Tail(ls), off + 5 + Len(Head(ls).body), length, r.out)

\* the stream of the line 10 PRINT "HI", its length word pointing at its end
IsHiStream ==
  /\ dt_prog.lines = <<[mem |-> 2049, num |-> 10, body |-> HiBody]>>
  /\ dt_prog.length = 13

\* C7 (as amended): for a stream whose length ceiling does not pass its last
\* record, detokenize writes, for each line record that starts below the
\* ceiling, the decimal line number and one space, then each byte up to the
\* terminating zero -- a byte <= 0x7F as that character, a byte >= 0x80 of the
\* table as its keyword with one space before and one after -- then a line
\* break, and stops with KeyError at a byte >= 0x80 the table lacks; the
\* stream of line 10 with bytes [0xBA, ' ', '"', 'H', 'I', '"', 0x00] gives
\* 10, two spaces, PRINT, two spaces, "HI", line break.
C7_Listing ==
  (pc = "done" /\ dt_prog # <<>> /\ dt_prog.length <= EndOffset(dt_prog.lines)) =>
    /\ LET want == ListLines(dt_prog.lines, 2, dt_prog.length, <<>>)
       IN  listing.out = want.out /\ listing.err = want.err
    /\ IsHiStream =>
         listing.out = <<49, 48, 32, 32, 80, 82, 73, 78, 84, 32, 32, 34, 72, 73, 34, 10>>

\* C7 witness: the stream of 10 PRINT "HI" has been de-tokenized
C7_Witness ==
  /\ pc = "done" /\ dt_prog # <<>> /\ IsHiStream
  /\ listing.err = "none" /\ Len(listing.out) = 16

\* C7 (as claimed): the stream of line 10 with bytes [0xBA, ' ', '"', 'H',
\* 'I', '"', 0x00] produces exactly 10 PRINT "HI" and a line break, each
\* token byte being written as its table keyword alone.
C7_Original ==
  (pc = "done" /\ dt_prog # <<>> /\ IsHiStream) =>
    listing.out = <<49, 48, 32, 80, 82, 73, 78, 84, 32, 34, 72, 73, 34, 10>>

(***************************************************************************)
(* Properties of Disk.read_sect (SpecDisk)                                 *)
(***************************************************************************)

\* C8 (as claimed): read_sect(track, sector) with track outside 0..34 or
\* sector outside 0..15 fails with the out-of-range error and makes no seek
\* and no read on the image.
C8_Original ==
  (pc = "open" /\ ret.n > 0 /\ (ret.t \notin 0 .. 34 \/ ret.s \notin 0 .. 15)) =>
    ret.err = "seek out of range" /\ ret.seeks = 0 /\ ret.reads = 0

(***************************************************************************)
(* Properties of class VTOC (SpecVTOC)                                     *)
(***************************************************************************)

\* the number of set bits of a byte
PopCount8(b) == Cardinality({j \in 0 .. 7 : (b \div (2 ^ j)) % 2 = 1})

\* the set bits of the first n bytes of every track's 4-byte bitmap, summed
\* over the tracks below t
RECURSIVE MapBits(_, _, _)
MapBits(buff, n, t) ==
  IF t = 0 THEN 0
  ELSE LET RECURSIVE bytes(_)
           bytes(k) == IF k = 0 THEN 0
                       ELSE PopCount8(buff[56 + 4 * (t - 1) + (k - 1)]) + bytes(k - 1)
       IN  bytes(n) + MapBits(buff, n, t - 1)

\* C4 (as amended): free_sectors equals the sum, over all 35 tracks, of the
\* number of set bits in the first two bytes (the 16-bit word at VTOC offset
\* 0x38 + 4*track) of that track's 4-byte bitmap, whatever the other two
\* bytes hold; the result is always in 0..560.
C4_FreeSectors ==
  (pc = "done" /\ err = "none" /\ ret # NoRet) =>
    /\ ret.free_sectors = MapBits(vtoc_buffer, 2, 35)
    /\ ret.free_sectors \in 0 .. 560

\* C4 witness: a VTOC whose bitmaps have all 32 bits set is counted as 560
C4_Witness ==
  /\ pc = "done" /\ err = "none" /\ ret # NoRet
  /\ \A o \in 56 .. 195 : vtoc_buffer[o] = 255
  /\ ret.free_sectors = 560

\* C4 (as claimed): free_sectors equals the sum, over all 35 tracks, of the
\* number of set bits in that track's full 4-byte bitmap.
C4_Original ==
  (pc = "done" /\ err = "none" /\ ret # NoRet) =>
    ret.free_sectors = MapBits(vtoc_buffer, 4, 35)

\* the six checked bytes hold their expected constants
SixBytesMatch(buff) ==
  /\ buff[3] = 3 /\ buff[39] = 122 /\ buff[52] = 35
  /\ buff[53] = 16 /\ buff[54] = 0 /\ buff[55] = 1

\* C9: VTOC construction succeeds if and only if the six checked bytes of
\* the sector at track 0x11 sector 0 (offsets 0x03, 0x27, 0x34, 0x35, 0x36,
\* 0x37) equal 0x03, 0x7A, 0x23, 0x10, 0x00, 0x01; otherwise it fails with
\* the not-a-DOS-3.3-disk error, whatever the other bytes hold.
C9_Validation ==
  (pc # "ready" /\ vtoc_buffer # <<>>) =>
    /\ vtoc_buffer = VtocSector(img.vtoc)
    /\ (err = "none") <=> SixBytesMatch(vtoc_buffer)
    /\ err \in {"none", "not an Apple DOS 3.3 disk"}
    /\ err # "none" => pc = "done" /\ ret = NoRet

\* C9 witness: construction failed on a sector with a single wrong checked
\* byte, the last one
C9_Witness ==
  /\ pc = "done" /\ err = "not an Apple DOS 3.3 disk"
  /\ vtoc_buffer # <<>>
  /\ vtoc_buffer[3] = 3 /\ vtoc_buffer[39] = 122 /\ vtoc_buffer[52] = 35
  /\ vtoc_buffer[53] = 16 /\ vtoc_buffer[54] = 0 /\ vtoc_buffer[55] = 2

(***************************************************************************)
(* Properties of the commands (Spec).  What a walk should deliver is       *)
(* stated on the description of the image, not on its bytes.               *)
(***************************************************************************)

IsPrefix(s, t) == Len(s) <= Len(t) /\ SubSeq(t, 1, Len(s)) = s

InGeometry(a) == a[1] \in 0 .. 34 /\ a[2] \in 0 .. 15

\* the catalog sector at address a: the sectors of track 17 that img.cat
\* describes; any other sector of the image holds no slot and no pointer
CatDescAt(image, a) ==
  IF a[1] = 17 /\ 16 - a[2] \in 1 .. Len(image.cat) THEN image.cat[16 - a[2]]
  ELSE [next |-> <<0, 0>>, slots |-> <<>>]

TslDescAt(image, a) ==
  IF a[1] = 18 /\ 16 - a[2] \in 1 .. Len(image.tsl) THEN image.tsl[16 - a[2]]
  ELSE [next |-> <<0, 0>>, ptrs |-> <<>>]

StripHigh(b) == IF b >= 128 THEN b - 128 ELSE b

\* byte j of the 30-byte name field of a directory slot
NameByte(slot, j) == IF j <= Len(slot.name) THEN slot.name[j] ELSE slot.pad

\* a slot in use: first byte not the deletion sentinel, name not empty
InUse(slot) == slot.t # 255 /\ NameByte(slot, 1) # 0

\* the record a slot in use stands for
EntryOf(slot) ==
  [track |-> slot.t, sector |-> slot.s,
   locked |-> IF slot.tl >= 128 THEN 128 ELSE 0,
   file_type |-> IF slot.tl >= 128 THEN slot.tl - 128 ELSE slot.tl,
   size |-> slot.size,
   name |-> [j \in 1 .. 30 |-> StripHigh(NameByte(slot, j))]]

EntriesOf(slots) ==
  LET used == SelectSeq(slots, InUse) IN [k \in 1 .. Len(used) |-> EntryOf(used[k])]

\* the entries of the first n sectors of the catalog chain starting at a
RECURSIVE ChainEntries(_, _, _)
ChainEntries(image, a, n) ==
  IF n = 0 \/ a[1] = 0 \/ ~InGeometry(a) THEN <<>>
  ELSE EntriesOf(CatDescAt(image, a).slots)
         \o ChainEntries(image, CatDescAt(image, a).next, n - 1)

\* the data pointers of an index sector: its slots before the first (0,0)
LivePtrs(ptrs) ==
  LET z == {q \in 1 .. Len(ptrs) : ptrs[q] = <<0, 0>>}
  IN  IF z = {} THEN ptrs
      ELSE SubSeq(ptrs, 1, (CHOOSE q \in z : \A r \in z : q <= r) - 1)

\* the data pointers of the first n sectors of the index chain starting at a
RECURSIVE ChainPtrs(_, _, _)
ChainPtrs(image, a, n) ==
  IF n = 0 \/ a[1] = 0 \/ ~InGeometry(a) THEN <<>>
  ELSE LivePtrs(TslDescAt(image, a).ptrs)
         \o ChainPtrs(image, TslDescAt(image, a).next, n - 1)

\* where the index chain starting at a points after n sectors, each
\* reached through a pointer whose track is not 0; <<-1, -1>> if the chain
\* has fewer than n such sectors
RECURSIVE Follow(_, _, _)
Follow(image, a, n) ==
  IF n = 0 THEN a
  ELSE IF a[1] = 0 THEN <<-1, -1>>
  ELSE Follow(image, TslDescAt(image, a).next, n - 1)

HopErrors == {"exceeded catalog hops", "exceeded track/sector list hops"}

\* the start of the file being dumped
FileStart == <<result[1], result[2]>>

InFileWalk ==
  cmd = "dump" /\ entered = 1 /\ pc \in {"walk_sectors", "for_slots", "exit", "done"}

\* the data pointers of the index sector the walk is at
CurrentPtrs == LivePtrs(TslDescAt(img, <<track, sector>>).ptrs)

\* the number of the slot the for loop of walk_sectors is at, from 1
SlotIndex == ((slot_offset - 12) \div 2) + 1

\* a step of the sector walk: a sector is delivered only by the scan of an
\* index sector, and is the one its next data pointer names; the scan starts
\* at the first slot, advances by one slot for each delivery and leaves the
\* index sector only after the last of its data pointers
C1_Step ==
  /\ delivered' # delivered =>
       /\ pc = "for_slots" /\ SlotIndex <= Len(CurrentPtrs)
       /\ delivered' = Append(delivered, CurrentPtrs[SlotIndex])
       /\ slot_offset' = slot_offset + 2
  /\ (pc = "walk_sectors" /\ pc' = "for_slots") => slot_offset' = 12
  /\ (pc = "for_slots" /\ pc' = "for_slots") => delivered' # delivered
  /\ (pc = "for_slots" /\ pc' = "walk_sectors") =>
       /\ SlotIndex = Len(CurrentPtrs) + 1
       /\ <<track', sector'>> = TslDescAt(img, <<track, sector>>).next

\* C1: walk_sectors hands the consumer the data sectors in the order the
\* index chain references them -- index sectors in chain order from the given
\* (track, sector), within each the slots in ascending order from 0x0C up to
\* the first (0,0) slot: when the walk returns the sectors delivered are that
\* whole list, each slot having given one callback with the sector at its
\* address, and no other; over the index sectors of the image they are a
\* prefix of it at every moment, and every step of the walk delivers the
\* next data pointer of the index sector it is at or nothing.
C1_DeliveryOrder ==
  /\ [](InFileWalk =>
         /\ (pc \in {"exit", "done"} /\ err = "none") =>
              delivered = ChainPtrs(img, FileStart, hop)
         /\ hop <= Len(img.tsl) + 1 =>
              IsPrefix(delivered, ChainPtrs(img, FileStart, hop)))
  /\ [][C1_Step]_vars

\* C1 witness: a walk over two index sectors returned, having delivered a
\* sector of track 0 and then the program sector
C1_Witness ==
  /\ InFileWalk /\ pc = "exit" /\ err = "none" /\ hop = 2
  /\ delivered = <<PtrTrk0, PtrProg>>

\* a pass of walk_entries over one catalog sector yields the entries of
\* the sector's slots in use, in slot order -- all of them unless an
\* exception ends the walk -- none with first byte 0xFF, and moves on to the
\* sector's next-pointer
C2_Step ==
  /\ yielded' # yielded => pc = "walk_entries"
  /\ (cmd = "catalog" /\ pc = "walk_entries" /\ hop' = hop + 1) =>
       LET desc == CatDescAt(img, <<track, sector>>)
           es   == IF InGeometry(<<track, sector>>) THEN EntriesOf(desc.slots) ELSE <<>>
       IN  /\ IsPrefix(yielded, yielded')
           /\ IsPrefix(yielded', yielded \o es)
           /\ \A k \in Len(yielded) + 1 .. Len(yielded') : yielded'[k].track # 255
           /\ pc' = "walk_entries" =>
                yielded' = yielded \o es /\ <<track', sector'>> = desc.next

\* C2: walk_entries with a callback that never returns a truthy value calls
\* it once for every slot in use and for no other, in on-disk order
\* (sectors in chain order, the 7 slots of each in ascending offset order):
\* a slot whose first byte is 0xFF is never yielded; a slot with another
\* first byte, a non-empty name and lock+type byte 0x00 is yielded with
\* file_type 0 and locked false.
C2_EntryOrder ==
  /\ []((cmd = "catalog" /\ pc = "returned") =>
          yielded = ChainEntries(img, img.vtoc.cat, hop))
  /\ [][C2_Step]_vars

\* C2 witness: the catalog of a full sector was walked: of its 7 slots the
\* deleted, the unused and the nameless one are skipped and the second
\* entry yielded is the unlocked text file
C2_Witness ==
  /\ cmd = "catalog" /\ pc = "returned"
  /\ img.cat = CatChain(<<FullSlots>>, <<0, 0>>)
  /\ Len(yielded) = 4
  /\ yielded[2].file_type = 0 /\ yielded[2].locked = 0 /\ yielded[2].name[1] = 84

\* C3 (as claimed): a chain walker raises its corrupt-chain error exactly
\* when the hop count exceeds 560.
C3_Original ==
  /\ err \in HopErrors => hop > 560
  /\ (pc \in {"walk_entries", "walk_sectors"} /\ hop > 560) => err \in HopErrors

\* C5: in dump, handler.__exit__ is called exactly once for an entered
\* handler, on every exit path of the sector walk -- after the last sector on
\* normal completion, and when walk_sectors aborts with an error; it is the
\* last step, so no sector is delivered after it; the ApplesoftHandler runs
\* the de-tokenizer exactly once, then, on the sectors accumulated so far.
C5_Finalization ==
  cmd = "dump" =>
    /\ exited <= entered /\ entered <= 1
    /\ pc = "done" => exited = entered
    /\ exited = 1 => pc = "done"
    /\ pc \in {"walk_sectors", "for_slots", "exit"} => entered = 1 /\ exited = 0
    /\ detok_runs = (IF exited = 1 /\ handler = "ApplesoftHandler" THEN 1 ELSE 0)
    /\ detok_runs = 1 => dt_data = delivered

\* C5 witness: an Applesoft dump aborted by an out-of-range data pointer
\* after a sector was delivered, and was finalized
C5_Witness ==
  /\ cmd = "dump" /\ pc = "done" /\ handler = "ApplesoftHandler"
  /\ err = "seek out of range" /\ delivered = <<PtrProg>>
  /\ exited = 1 /\ detok_runs = 1

\* the file name equals the 30-character name of entry e once padded
NameMatches(e, f) ==
  Len(f) <= 30 /\ \A j \in 1 .. 30 : e.name[j] = (IF j <= Len(f) THEN f[j] ELSE 32)

\* no entry in use of the catalog has the name given to dump
NoMatch ==
  LET all == ChainEntries(img, img.vtoc.cat, Len(img.cat) + 1)
  IN  \A k \in 1 .. Len(all) : ~NameMatches(all[k], file_name)

\* C6: dump with a file name that matches no entry in use of the catalog
\* (the name space-padded to 30 characters, compared exactly with the
\* high-bit-stripped stored name) makes no handler, reads nothing but the VTOC
\* and catalog sectors, writes no output, and once the whole catalog chain
\* has been walked fails with the file-not-found error.
C6_NotFound ==
  (cmd = "dump" /\ NoMatch) =>
    /\ handler = "none" /\ entered = 0 /\ exited = 0
    /\ delivered = <<>> /\ output = <<>> /\ detok_runs = 0
    /\ pc \in {"start", "walk_entries", "returned", "done"}
    /\ nread <= 1 + hop
    /\ pc = "done" =>
         err = (IF ~SixBytesMatch(vtoc_buffer) THEN "not an Apple DOS 3.3 disk"
                ELSE IF track = 0 THEN "file not found"
                ELSE IF hop >= 560 THEN "exceeded catalog hops"
                ELSE "seek out of range")
    /\ err = "file not found" =>
         /\ track = 0 /\ nread = 1 + hop
         /\ yielded = ChainEntries(img, img.vtoc.cat, hop)

\* C6 witness: dump of GONE, the name of a deleted entry, failed after both
\* sectors of the catalog were walked
C6_Witness ==
  /\ cmd = "dump" /\ pc = "done" /\ err = "file not found"
  /\ file_name = NameGONE /\ hop = 2 /\ Len(yielded) = 3

\* a step of the sector walk at the loop test and at the end of a scan: a
\* pointer with track byte 0 ends the walk, any other is followed to a
\* further index sector; a scan, ended by a (0,0) slot or by the end of the
\* sector, goes on to the loop test with the sector's next-pointer
C10_Step ==
  /\ (InFileWalk /\ pc = "walk_sectors" /\ track = 0) =>
       pc' = "exit" /\ err' = "none"
  /\ (InFileWalk /\ pc = "walk_sectors" /\ track # 0) =>
       pc' = "for_slots" \/ err' # "none"
  /\ (pc = "for_slots" /\ SlotIndex <= Len(TslDescAt(img, <<track, sector>>).ptrs)
        /\ TslDescAt(img, <<track, sector>>).ptrs[SlotIndex] = <<0, 0>>) =>
       /\ pc' = "walk_sectors" /\ delivered' = delivered
       /\ <<track', sector'>> = TslDescAt(img, <<track, sector>>).next

\* C10 (as amended): walk_sectors returns exactly when an index sector's
\* next-pointer has track byte 0 (byte 0x01), whatever its sector byte: a
\* next-pointer with another track byte is followed to a further index
\* sector, and a data slot (0,0) ends only the scan of its index sector, the
\* data sectors of later index sectors being delivered.
C10_ChainEnd ==
  /\ []((InFileWalk /\ pc = "exit" /\ err = "none") =>
          /\ track = 0
          /\ <<track, sector>> = Follow(img, FileStart, hop)
          /\ Len(delivered) = Len(ChainPtrs(img, FileStart, hop)))
  /\ [][C10_Step]_vars

\* C10 witness: a walk returned at the next-pointer (0,5) of the second
\* index sector, having delivered its data although the first index sector
\* starts with a (0,0) slot
C10_Witness ==
  /\ InFileWalk /\ pc = "exit" /\ err = "none"
  /\ hop = 2 /\ track = 0 /\ sector = 5
  /\ img.tsl[1].ptrs = <<PtrEnd>> /\ delivered = <<PtrProg>>

\* C10 (as claimed): walk_sectors ends the walk exactly when an index
\* sector's next-pointer is (0,0).
C10_Original ==
  (InFileWalk /\ pc = "exit" /\ err = "none") => (track = 0 /\ sector = 0)
====
